---- MODULE Spec2Model ----
(***************************************************************************)
(* Puzzle generators of thebitlist: word search, crossword and bingo.      *)
(*                                                                         *)
(* Strings are sequences of one-character strings (<<"C","A","T">>), so    *)
(* that trim, toUpperCase and indexing are computed, not assumed.          *)
(* A JavaScript array of arrays is a record [length, cell]: length is the  *)
(* number of rows and cell maps <<r, c>> to the content of grid[r][c] for  *)
(* every element that exists.  Writing an element that does not exist      *)
(* adds it, as an assignment past the end of a row does.                   *)
(***************************************************************************)
EXTENDS Integers, Sequences, FiniteSets, TLC

VARIABLES
    page,          \* which generator page is open
    \* ---- word search: generatePuzzle ----
    wsRawWords,    \* rawWords argument
    wsSize,        \* size argument
    wsOptions,     \* directionOptions argument
    wsPc,          \* "start" | "placing" | "done"
    wsWords,       \* const words (cleaned list)
    wsDirections,  \* const directions
    wsGrid,        \* const grid
    wsIdx,         \* position of words.forEach (0-based)
    wsAttempt,     \* loop variable of placeWord
    wsPlaced,      \* return values of the placeWord calls made so far
    \* ---- word search: WordSearchPage ----
    wsForm,        \* state wordInput, size, horizontal, vertical, diagonal, backwards
    wsError,       \* state error
    wsPuzzle,      \* state puzzle
    \* ---- crossword: generateCrossword ----
    cwInput,       \* entriesInput argument
    cwPc,          \* "start" | "placing" | "done"
    cwEntries,     \* sortedEntries (entries mutated in place)
    cwGrid,        \* const grid
    cwIdx,         \* loop variable idx
    cwRow,         \* numberAndBuildClues: loop variable r
    cwNumbering,   \* numberAndBuildClues: numbers, clue lists and clueNumber
    cwPuzzle,      \* returned CrosswordPuzzle
    \* ---- bingo: BingoPage ----
    wordInput,     \* text area content, as the items between separators
    bingoGrid,     \* state grid
    bingoError,    \* state error
    lastWords,     \* state lastWords
    bingoCall      \* the last generateBingoGrid call: argument and outcome

wsPageVars == <<wsForm, wsError, wsPuzzle>>
wsVars == <<wsRawWords, wsSize, wsOptions, wsPc, wsWords, wsDirections,
            wsGrid, wsIdx, wsAttempt, wsPlaced, wsPageVars>>
cwVars == <<cwInput, cwPc, cwEntries, cwGrid, cwIdx, cwRow, cwNumbering,
            cwPuzzle>>
bingoVars == <<wordInput, bingoGrid, bingoError, lastWords, bingoCall>>
vars == <<page, wsVars, cwVars, bingoVars>>

----------------------------------------------------------------------------
(* Bounds                                                                  *)

\* largest grid size handed to generatePuzzle (smallest is MinGridSize)
MaxSize == 8
\* seeds of the random stream used where a run draws many numbers at once
MaxSeed == 1

----------------------------------------------------------------------------
(* Strings                                                                 *)

Lower == <<"a","b","c","d","e","f","g","h","i","j","k","l","m",
           "n","o","p","q","r","s","t","u","v","w","x","y","z">>
alphabet == <<"A","B","C","D","E","F","G","H","I","J","K","L","M",
              "N","O","P","Q","R","S","T","U","V","W","X","Y","Z">>
WhiteSpace == {" ", "\t", "\r"}

Range(s) == {s[i] : i \in DOMAIN s}

\* String.prototype.toUpperCase, one character
UpperChar(ch) ==
    IF \E i \in DOMAIN Lower : Lower[i] = ch
    THEN alphabet[CHOOSE i \in DOMAIN Lower : Lower[i] = ch]
    ELSE ch

toUpperCase(s) == [i \in DOMAIN s |-> UpperChar(s[i])]

\* String.prototype.trim: drop leading and trailing white space
trim(s) ==
    LET keep == {i \in DOMAIN s : s[i] \notin WhiteSpace}
    IN  IF keep = {} THEN <<>>
        ELSE LET lo == CHOOSE i \in keep : \A j \in keep : i <= j
                 hi == CHOOSE i \in keep : \A j \in keep : j <= i
             IN  SubSeq(s, lo, hi)

\* Math.random() as a stream: the n-th draw of the stream started from seed,
\* as the numerator of a fraction of RandDen, so the value lies in [0, 1).
RandDen == 1000
Random(seed, n) == ((seed + 1) * 7919 + n * 104729 + seed * n * 31) % RandDen

\* Math.floor(Math.random() * m)
RandomBelow(seed, n, m) == (Random(seed, n) * m) \div RandDen

----------------------------------------------------------------------------
(* Word search                                                             *)

createEmptyGrid(size) ==
    [length |-> size,
     cell   |-> [p \in (0 .. size - 1) \X (0 .. size - 1) |-> ""]]

randomLetter(seed, n) == alphabet[RandomBelow(seed, n, Len(alphabet)) + 1]

\* the loop of canPlaceWord from iteration i on
RECURSIVE canPlaceWordFrom(_, _, _, _, _, _, _)
canPlaceWordFrom(grid, word, row, col, dx, dy, i) ==
    IF i >= Len(word) THEN TRUE
    ELSE IF \/ row + dx * i < 0 \/ row + dx * i >= grid.length
            \/ col + dy * i < 0 \/ col + dy * i >= grid.length
         THEN FALSE
         ELSE IF /\ grid.cell[<<row + dx * i, col + dy * i>>] # ""
                 /\ grid.cell[<<row + dx * i, col + dy * i>>] # word[i + 1]
              THEN FALSE
              ELSE canPlaceWordFrom(grid, word, row, col, dx, dy, i + 1)

\* canPlaceWord without the comparison of the cell with the letter
canPlaceWordBoundsOnly(grid, word, row, col, dx, dy) ==
    \A i \in 0 .. Len(word) - 1 :
        /\ row + dx * i >= 0 /\ row + dx * i < grid.length
        /\ col + dy * i >= 0 /\ col + dy * i < grid.length

\* canPlaceWord that accepts empty cells only
canPlaceWordEmptyOnly(grid, word, row, col, dx, dy) ==
    \A i \in 0 .. Len(word) - 1 :
        /\ row + dx * i >= 0 /\ row + dx * i < grid.length
        /\ col + dy * i >= 0 /\ col + dy * i < grid.length
        /\ grid.cell[<<row + dx * i, col + dy * i>>] = ""

canPlaceWord(grid, word, row, col, dx, dy) ==
    canPlaceWordFrom(grid, word, row, col, dx, dy, 0)

\* the grid elements canPlaceWord reads (const cell = grid[r][c]) from
\* iteration i on, up to the iteration that returns
RECURSIVE canPlaceWordReads(_, _, _, _, _, _, _)
canPlaceWordReads(grid, word, row, col, dx, dy, i) ==
    IF i >= Len(word) THEN {}
    ELSE IF \/ row + dx * i < 0 \/ row + dx * i >= grid.length
            \/ col + dy * i < 0 \/ col + dy * i >= grid.length
         THEN {}
         ELSE {<<row + dx * i, col + dy * i>>} \cup
              (IF /\ grid.cell[<<row + dx * i, col + dy * i>>] # ""
                  /\ grid.cell[<<row + dx * i, col + dy * i>>] # word[i + 1]
               THEN {}
               ELSE canPlaceWordReads(grid, word, row, col, dx, dy, i + 1))

\* grid[r][c] = value; an element that does not exist yet is created
SetCell(cell, p, value) ==
    IF p \in DOMAIN cell THEN [cell EXCEPT ![p] = value] ELSE (p :> value) @@ cell

\* for (i...) grid[r][c] = word[i], from iteration i on
RECURSIVE WriteWordFrom(_, _, _, _, _, _, _)
WriteWordFrom(cell, word, row, col, dx, dy, i) ==
    IF i >= Len(word) THEN cell
    ELSE WriteWordFrom(SetCell(cell, <<row + dx * i, col + dy * i>>, word[i + 1]),
                       word, row, col, dx, dy, i + 1)

\* the write loop with the index running from 1 to word.length
WriteWordShifted(grid, word, row, col, dx, dy) ==
    [grid EXCEPT !.cell =
        WriteWordFrom(grid.cell, word, row + dx, col + dy, dx, dy, 0)]

WriteWord(grid, word, row, col, dx, dy) ==
    [grid EXCEPT !.cell = WriteWordFrom(grid.cell, word, row, col, dx, dy, 0)]

\* buildDirections with the backwards pushes outside the blocks of their
\* directions
buildDirectionsBackwardsAlone(options) ==
    (IF options.horizontal THEN <<<<0, 1>>>> ELSE <<>>)
    \o (IF options.backwards THEN <<<<0, -1>>>> ELSE <<>>)
    \o (IF options.vertical THEN <<<<1, 0>>>> ELSE <<>>)
    \o (IF options.backwards THEN <<<<-1, 0>>>> ELSE <<>>)
    \o (IF options.diagonal THEN <<<<1, 1>>, <<1, -1>>>> ELSE <<>>)
    \o (IF options.backwards THEN <<<<-1, 1>>, <<-1, -1>>>> ELSE <<>>)

buildDirections(options) ==
    (IF options.horizontal
     THEN <<<<0, 1>>>> \o (IF options.backwards THEN <<<<0, -1>>>> ELSE <<>>)
     ELSE <<>>)
    \o
    (IF options.vertical
     THEN <<<<1, 0>>>> \o (IF options.backwards THEN <<<<-1, 0>>>> ELSE <<>>)
     ELSE <<>>)
    \o
    (IF options.diagonal
     THEN <<<<1, 1>>, <<1, -1>>>>
          \o (IF options.backwards THEN <<<<-1, 1>>, <<-1, -1>>>> ELSE <<>>)
     ELSE <<>>)

\* rawWords.map(trim, toUpperCase).filter(length > 0 && length <= size)
CleanWords(rawWords, size) ==
    LET mapped == [i \in DOMAIN rawWords |-> toUpperCase(trim(rawWords[i]))]
        ok(w) == Len(w) > 0 /\ Len(w) <= size
    IN  SelectSeq(mapped, ok)

\* the test without the negation: grid[r][c]
Truthy(v) == v # ""

\* !grid[r][c]: the empty string is the only falsy content of a cell
Falsy(v) == v = ""

\* the loop over c of the fill of generatePuzzle for row r, from column c
\* on, n draws of the random stream already consumed; returns the cells and
\* the number of draws consumed
RECURSIVE FillCols(_, _, _, _, _, _)
FillCols(cell, size, seed, r, c, n) ==
    IF c >= size THEN [cell |-> cell, n |-> n]
    ELSE IF Falsy(cell[<<r, c>>])
         THEN FillCols([cell EXCEPT ![<<r, c>>] = randomLetter(seed, n)],
                       size, seed, r, c + 1, n + 1)
         ELSE FillCols(cell, size, seed, r, c + 1, n)

\* the fill loop of generatePuzzle from row r on
RECURSIVE FillFrom(_, _, _, _, _)
FillFrom(cell, size, seed, r, n) ==
    IF r >= size THEN cell
    ELSE LET row == FillCols(cell, size, seed, r, 0, n)
         IN  FillFrom(row.cell, size, seed, r + 1, row.n)

\* the attempt loop running while attempt <= 200
MaxAttemptsInclusive == 200 + 1
\* attempt limit of placeWord
MaxAttempts == 200
\* clamp of handleGenerate: Math.max(8, Math.min(20, ...))
MinGridSize == 8

Options == [horizontal : BOOLEAN, vertical : BOOLEAN,
            diagonal : BOOLEAN, backwards : BOOLEAN]

\* the direction options applyDifficulty sets for easy and medium
Presets ==
    { [horizontal |-> TRUE, vertical |-> TRUE, diagonal |-> FALSE, backwards |-> FALSE],
      [horizontal |-> TRUE, vertical |-> TRUE, diagonal |-> TRUE, backwards |-> FALSE] }

\* word lists with at most one word that fits a grid, tried with every
\* combination of direction options
WSWordLists ==
    { << <<" ","s","t","r","e","a","m","s">>, <<" "," ">> >>,
      << <<"t","o","o","l","o","n","g","e","r","s">>, <<"d","o","g","s","t","a","r">> >>,
      << <<>>, <<"\t">> >>,
      << >> }

\* word lists whose words cross, tried with the presets on the smallest grid
WSCrossingLists ==
    { << <<"m","i","s","t","r","e","s","s">>, <<"M","a","s","t","e","r","s"," ">> >> }

\* the (rawWords, directionOptions, size) arguments of generatePuzzle
WSInputs ==
    (WSWordLists \X Options \X (MinGridSize .. MaxSize))
        \cup (WSCrossingLists \X Presets \X {MinGridSize})

WSIdle ==
    /\ wsRawWords = <<>>
    /\ wsSize = 0
    /\ wsOptions = [horizontal |-> FALSE, vertical |-> FALSE,
                    diagonal |-> FALSE, backwards |-> FALSE]

\* the page is not mounted: generatePuzzle is called with its arguments
NoForm == [mounted |-> FALSE]
NoPuzzleYet == <<>>
\* state error that is null
NoErrorMessage == "null"

WSInit ==
    /\ IF page = "wordsearch"
       THEN \E in \in WSInputs :
                wsRawWords = in[1] /\ wsOptions = in[2] /\ wsSize = in[3]
       ELSE WSIdle
    /\ wsForm = NoForm
    /\ wsError = NoErrorMessage
    /\ wsPuzzle = NoPuzzleYet
    /\ wsPc = "start"
    /\ wsWords = <<>>
    /\ wsDirections = <<>>
    /\ wsGrid = createEmptyGrid(0)
    /\ wsIdx = 0
    /\ wsAttempt = 0
    /\ wsPlaced = <<>>

\* generatePuzzle up to the forEach
WSBegin ==
    /\ page = "wordsearch"
    /\ wsPc = "start"
    /\ wsWords' = CleanWords(wsRawWords, wsSize)
    /\ wsDirections' = buildDirections(wsOptions)
    /\ wsGrid' = createEmptyGrid(wsSize)
    /\ wsIdx' = 0
    /\ wsAttempt' = 0
    /\ wsPlaced' = <<>>
    /\ wsPc' = "placing"
    /\ UNCHANGED <<wsRawWords, wsSize, wsOptions>>

\* the draws of one attempt: an index into directions, a row and a column
Draws(directions, size) ==
    (1 .. Len(directions)) \X (0 .. size - 1) \X (0 .. size - 1)

\* canPlaceWord for the word and the draw of one attempt
DrawFits(grid, word, directions, draw) ==
    canPlaceWord(grid, word, draw[2], draw[3],
                 directions[draw[1]][1], directions[draw[1]][2])

\* one iteration of the attempt loop of placeWord: the draw fits, the word
\* is written and placeWord returns true
WSAttemptPlaces ==
    /\ wsPc = "placing"
    /\ wsIdx < Len(wsWords)
    /\ Len(wsDirections) # 0
    /\ wsAttempt < MaxAttempts
    /\ \E draw \in Draws(wsDirections, wsGrid.length) :
          LET word == wsWords[wsIdx + 1]
          IN  /\ DrawFits(wsGrid, word, wsDirections, draw)
              /\ wsGrid' = WriteWord(wsGrid, word, draw[2], draw[3],
                                     wsDirections[draw[1]][1],
                                     wsDirections[draw[1]][2])
    /\ wsPlaced' = Append(wsPlaced, TRUE)
    /\ wsIdx' = wsIdx + 1
    /\ wsAttempt' = 0
    /\ UNCHANGED <<wsRawWords, wsSize, wsOptions, wsPc, wsWords, wsDirections>>

\* one iteration of the attempt loop of placeWord: the draw does not fit
WSAttemptFails ==
    /\ wsPc = "placing"
    /\ wsIdx < Len(wsWords)
    /\ Len(wsDirections) # 0
    /\ wsAttempt < MaxAttempts
    /\ ~ \A draw \in Draws(wsDirections, wsGrid.length) :
            DrawFits(wsGrid, wsWords[wsIdx + 1], wsDirections, draw)
    /\ wsAttempt' = wsAttempt + 1
    /\ UNCHANGED <<wsRawWords, wsSize, wsOptions, wsPc, wsWords, wsDirections,
                   wsGrid, wsPlaced, wsIdx>>

\* placeWord returns false: no direction, or every attempt failed
WSGiveUp ==
    /\ wsPc = "placing"
    /\ wsIdx < Len(wsWords)
    /\ Len(wsDirections) = 0 \/ wsAttempt >= MaxAttempts
    /\ wsPlaced' = Append(wsPlaced, FALSE)
    /\ wsIdx' = wsIdx + 1
    /\ wsAttempt' = 0
    /\ UNCHANGED <<wsRawWords, wsSize, wsOptions, wsPc, wsWords, wsDirections,
                   wsGrid>>

\* the fill loop and the return of generatePuzzle
WSFill ==
    /\ wsPc = "placing"
    /\ wsIdx >= Len(wsWords)
    /\ \E seed \in 0 .. MaxSeed :
          wsGrid' = [wsGrid EXCEPT !.cell = FillFrom(wsGrid.cell, wsSize, seed, 0, 0)]
    /\ wsPc' = "done"
    /\ UNCHANGED <<wsRawWords, wsSize, wsOptions, wsWords, wsDirections,
                   wsIdx, wsAttempt, wsPlaced>>

WSNext ==
    \/ WSBegin /\ UNCHANGED <<page, wsPageVars, cwVars, bingoVars>>
    \/ wsForm = NoForm /\ WSAttemptPlaces /\ UNCHANGED <<page, wsPageVars, cwVars, bingoVars>>
    \/ wsForm = NoForm /\ WSAttemptFails /\ UNCHANGED <<page, wsPageVars, cwVars, bingoVars>>
    \/ wsForm = NoForm /\ WSGiveUp /\ UNCHANGED <<page, wsPageVars, cwVars, bingoVars>>
    \/ wsForm = NoForm /\ WSFill /\ UNCHANGED <<page, wsPageVars, cwVars, bingoVars>>

\* ---- WordSearchPage: the form and handleGenerate ----

NoDirectionMessage ==
    "Please select at least one direction (horizontal, vertical, or diagonal)."
NoWordMessage == "Please enter at least one word."

\* words.every((w) => w.trim() === "")
EveryBlank(words) == \A i \in DOMAIN words : trim(words[i]) = <<>>

\* the checks of handleGenerate with the direction check left out
ValidationWordsOnly(form) ==
    IF EveryBlank(form.wordInput) THEN NoWordMessage ELSE NoErrorMessage

\* the checks of handleGenerate: the message of the setError before the
\* early return, or NoErrorMessage when the handler goes on
Validation(form) ==
    IF ~form.horizontal /\ ~form.vertical /\ ~form.diagonal
    THEN NoDirectionMessage
    ELSE IF EveryBlank(form.wordInput) THEN NoWordMessage ELSE NoErrorMessage

\* Math.max(8, Math.min(20, Number(size) || 10))
gridSize(size) ==
    LET n == IF size = 0 THEN 10 ELSE size
        m == IF n < 20 THEN n ELSE 20
    IN  IF m > MinGridSize THEN m ELSE MinGridSize

Form(items, size, h, v, d, b) ==
    [mounted |-> TRUE, wordInput |-> items, size |-> size,
     horizontal |-> h, vertical |-> v, diagonal |-> d, backwards |-> b]

\* contents of the form: the items wordInput.split(/\n|,/) returns, the
\* number in the size field and the four check boxes
WSForms ==
    { Form(<< <<"m","i","s","t","r","e","s","s">> >>, 8, TRUE, FALSE, FALSE, FALSE),
      Form(<< <<"m","i","s","t","r","e","s","s">>, <<>> >>, 8, FALSE, FALSE, FALSE, TRUE),
      Form(<< <<" ">>, <<>>, <<"\t"," ">> >>, 8, TRUE, TRUE, FALSE, FALSE),
      Form(<< <<>> >>, 8, FALSE, FALSE, FALSE, FALSE),
      Form(<< <<"t","o","o","l","o","n","g","e","r","s">> >>, 3, FALSE, TRUE, FALSE, FALSE),
      Form(<< <<"w","a","t","e","r","m","e","l","o","n","s">>, <<" ">> >>, 0, FALSE, TRUE, FALSE, FALSE) }

\* the page after the user filled in the form, before the first submit
WSFormInit ==
    /\ WSIdle
    /\ wsForm \in WSForms
    /\ wsError = NoErrorMessage
    /\ wsPuzzle = NoPuzzleYet
    /\ wsPc = "idle"
    /\ wsWords = <<>>
    /\ wsDirections = <<>>
    /\ wsGrid = createEmptyGrid(0)
    /\ wsIdx = 0
    /\ wsAttempt = 0
    /\ wsPlaced = <<>>

\* onChange of the text area, the size field and the check boxes
WSFormEdit ==
    /\ wsForm # NoForm
    /\ wsPc \in {"idle", "done"}
    /\ wsForm' \in WSForms \ {wsForm}
    /\ UNCHANGED <<wsError, wsPuzzle, wsRawWords, wsSize, wsOptions, wsPc,
                   wsWords, wsDirections, wsGrid, wsIdx, wsAttempt, wsPlaced>>

\* handleGenerate up to the forEach of generatePuzzle: an early return with
\* the error set, or setError(null) and the call of generatePuzzle
WSHandleGenerate ==
    /\ wsForm # NoForm
    /\ wsPc \in {"idle", "done"}
    /\ LET words == wsForm.wordInput
           size == gridSize(wsForm.size)
           options == [horizontal |-> wsForm.horizontal, vertical |-> wsForm.vertical,
                       diagonal |-> wsForm.diagonal, backwards |-> wsForm.backwards]
       IN  IF Validation(wsForm) # NoErrorMessage
           THEN /\ wsError' = Validation(wsForm)
                /\ UNCHANGED <<wsRawWords, wsSize, wsOptions, wsPc, wsWords,
                               wsDirections, wsGrid, wsIdx, wsAttempt, wsPlaced>>
           ELSE /\ wsError' = NoErrorMessage
                /\ wsRawWords' = words
                /\ wsSize' = size
                /\ wsOptions' = options
                /\ wsWords' = CleanWords(words, size)
                /\ wsDirections' = buildDirections(options)
                /\ wsGrid' = createEmptyGrid(size)
                /\ wsIdx' = 0
                /\ wsAttempt' = 0
                /\ wsPlaced' = <<>>
                /\ wsPc' = "placing"
    /\ UNCHANGED <<wsForm, wsPuzzle>>

\* the fill loop and the return of generatePuzzle, and setPuzzle(result)
WSHandleGenerateReturns ==
    /\ wsForm # NoForm
    /\ WSFill
    /\ wsPuzzle' = [grid |-> wsGrid', words |-> wsWords]
    /\ UNCHANGED <<wsForm, wsError>>

WSFormNext ==
    \/ WSFormEdit /\ UNCHANGED <<page, cwVars, bingoVars>>
    \/ WSHandleGenerate /\ UNCHANGED <<page, cwVars, bingoVars>>
    \/ wsForm # NoForm /\ WSAttemptPlaces /\ UNCHANGED <<page, wsPageVars, cwVars, bingoVars>>
    \/ wsForm # NoForm /\ WSAttemptFails /\ UNCHANGED <<page, wsPageVars, cwVars, bingoVars>>
    \/ wsForm # NoForm /\ WSGiveUp /\ UNCHANGED <<page, wsPageVars, cwVars, bingoVars>>
    \/ WSHandleGenerateReturns /\ UNCHANGED <<page, cwVars, bingoVars>>

----------------------------------------------------------------------------
(* Crossword                                                               *)

GRID_SIZE == 15

\* a grid cell that is null (a block)
NULL == "null"
\* an entry field that is undefined (row, col) and a numbers cell that is null
UNDEF == -1
NoNumber == 0

cwCreateEmptyGrid(size) ==
    [length |-> size,
     cell   |-> [p \in (0 .. size - 1) \X (0 .. size - 1) |-> NULL]]

createEmptyNumbers(size) ==
    [p \in (0 .. size - 1) \X (0 .. size - 1) |-> NoNumber]

\* const copy = [...arr]; for (i = length - 1; i > 0; i--) swap copy[i], copy[j]
\* where j[i] is the value of Math.floor(Math.random() * (i + 1)) drawn for i
RECURSIVE shuffleFrom(_, _, _)
shuffleFrom(copy, i, j) ==
    IF i <= 0 THEN copy
    ELSE shuffleFrom([copy EXCEPT ![i + 1] = copy[j[i] + 1],
                                  ![j[i] + 1] = copy[i + 1]], i - 1, j)

\* the loop of shuffleArray assigning copy[i] = copy[j] without the swap
RECURSIVE overwriteFrom(_, _, _)
overwriteFrom(copy, i, j) ==
    IF i <= 0 THEN copy
    ELSE overwriteFrom([copy EXCEPT ![i + 1] = copy[j[i] + 1]], i - 1, j)

shuffleArrayOverwrite(arr, j) == overwriteFrom(arr, Len(arr) - 1, j)

shuffleArray(arr, j) == shuffleFrom(arr, Len(arr) - 1, j)

\* every outcome of the draws of shuffleArray for an array of n elements
ShuffleDraws(n) == {j \in [1 .. n - 1 -> 0 .. n - 1] : \A i \in 1 .. n - 1 : j[i] <= i}

\* Array.prototype.sort with (a, b) => b.answer.length - a.answer.length:
\* a stable sort, longest answer first
RECURSIVE InsertByLength(_, _)
InsertByLength(sorted, e) ==
    IF sorted = <<>> THEN <<e>>
    ELSE IF Len(Head(sorted).answer) >= Len(e.answer)
         THEN <<Head(sorted)>> \o InsertByLength(Tail(sorted), e)
         ELSE <<e>> \o sorted

RECURSIVE SortByLength(_)
SortByLength(arr) ==
    IF arr = <<>> THEN <<>>
    ELSE InsertByLength(SortByLength(SubSeq(arr, 1, Len(arr) - 1)), arr[Len(arr)])

\* the compatibility test made for letter k alone, without the loop
LettersFitFirstOnly(grid, word, row, col, dr, dc, k) ==
    IF k >= Len(word) THEN TRUE
    ELSE ~(/\ grid.cell[<<row + dr * k, col + dc * k>>] # NULL
           /\ grid.cell[<<row + dr * k, col + dc * k>>] # word[k + 1])

\* the compatibility loop of tryPlaceWord from letter k on, over the cells
\* (row + dr * k, col + dc * k)
RECURSIVE LettersFit(_, _, _, _, _, _, _)
LettersFit(grid, word, row, col, dr, dc, k) ==
    IF k >= Len(word) THEN TRUE
    ELSE IF /\ grid.cell[<<row + dr * k, col + dc * k>>] # NULL
            /\ grid.cell[<<row + dr * k, col + dc * k>>] # word[k + 1]
         THEN FALSE
         ELSE LettersFit(grid, word, row, col, dr, dc, k + 1)

Failure(grid) ==
    [success |-> FALSE, row |-> UNDEF, col |-> UNDEF, direction |-> "none",
     grid |-> grid]

\* one loop that checks and writes letter by letter, from letter k on: the
\* letters before the first conflict are written
RECURSIVE WriteUntilConflict(_, _, _, _, _, _, _)
WriteUntilConflict(cell, word, row, col, dr, dc, k) ==
    IF k >= Len(word) THEN cell
    ELSE IF /\ cell[<<row + dr * k, col + dc * k>>] # NULL
            /\ cell[<<row + dr * k, col + dc * k>>] # word[k + 1]
         THEN cell
         ELSE WriteUntilConflict(
                  SetCell(cell, <<row + dr * k, col + dc * k>>, word[k + 1]),
                  word, row, col, dr, dc, k + 1)

\* tryPlaceWord with the check loop and the write loop merged into one
tryPlaceWordPerLetter(grid, entry, row, col, direction, indexInWord) ==
    LET size == grid.length
        word == entry.answer
        len == Len(word)
        startRow == IF direction = "across" THEN row ELSE row - indexInWord
        startCol == IF direction = "across" THEN col - indexInWord ELSE col
        dr == IF direction = "across" THEN 0 ELSE 1
        dc == IF direction = "across" THEN 1 ELSE 0
    IN  IF len = 0 THEN Failure(grid)
        ELSE IF \/ startRow < 0 \/ startRow + dr * (len - 1) >= size
                \/ startCol < 0 \/ startCol + dc * (len - 1) >= size
        THEN Failure(grid)
        ELSE LET written == [grid EXCEPT !.cell =
                    WriteUntilConflict(grid.cell, word, startRow, startCol, dr, dc, 0)]
             IN  IF ~LettersFit(grid, word, startRow, startCol, dr, dc, 0)
                 THEN Failure(written)
                 ELSE [success |-> TRUE, row |-> startRow, col |-> startCol,
                       direction |-> direction, grid |-> written]

\* returns the result object and the grid as the call leaves it
tryPlaceWord(grid, entry, row, col, direction, indexInWord) ==
    LET size == grid.length
        word == entry.answer
        len == Len(word)
    IN  IF len = 0 THEN Failure(grid)
        ELSE IF direction = "across"
        THEN LET startCol == col - indexInWord
                 endCol == startCol + len - 1
             IN  IF startCol < 0 \/ endCol >= size THEN Failure(grid)
                 ELSE IF ~LettersFit(grid, word, row, startCol, 0, 1, 0)
                 THEN Failure(grid)
                 ELSE [success |-> TRUE, row |-> row, col |-> startCol,
                       direction |-> direction,
                       grid |-> WriteWord(grid, word, row, startCol, 0, 1)]
        ELSE LET startRow == row - indexInWord
                 endRow == startRow + len - 1
             IN  IF startRow < 0 \/ endRow >= size THEN Failure(grid)
                 ELSE IF ~LettersFit(grid, word, startRow, col, 1, 0, 0)
                 THEN Failure(grid)
                 ELSE [success |-> TRUE, row |-> startRow, col |-> col,
                       direction |-> direction,
                       grid |-> WriteWord(grid, word, startRow, col, 1, 0)]

\* the loop over c with the down attempt made before the across attempt
RECURSIVE ScanColsDownFirst(_, _, _, _, _)
ScanColsDownFirst(grid, entry, wi, r, c) ==
    IF c >= grid.length THEN Failure(grid)
    ELSE IF grid.cell[<<r, c>>] = entry.answer[wi + 1]
    THEN LET tryDown == tryPlaceWord(grid, entry, r, c, "down", wi)
         IN  IF tryDown.success THEN tryDown
             ELSE LET tryAcross == tryPlaceWord(tryDown.grid, entry, r, c, "across", wi)
                  IN  IF tryAcross.success THEN tryAcross
                      ELSE ScanColsDownFirst(tryAcross.grid, entry, wi, r, c + 1)
    ELSE ScanColsDownFirst(grid, entry, wi, r, c + 1)

\* the loop over c for one letter wi and one row r, from column c on; the
\* grid is the one object every call works on, so each call gets it as the
\* call before left it
RECURSIVE ScanCols(_, _, _, _, _)
ScanCols(grid, entry, wi, r, c) ==
    IF c >= grid.length THEN Failure(grid)
    ELSE IF grid.cell[<<r, c>>] = entry.answer[wi + 1]
    THEN LET tryAcross == tryPlaceWord(grid, entry, r, c, "across", wi)
         IN  IF tryAcross.success THEN tryAcross
             ELSE LET tryDown == tryPlaceWord(tryAcross.grid, entry, r, c, "down", wi)
                  IN  IF tryDown.success THEN tryDown
                      ELSE ScanCols(tryDown.grid, entry, wi, r, c + 1)
    ELSE ScanCols(grid, entry, wi, r, c + 1)

\* the loop over r for one letter wi, from row r on
RECURSIVE ScanRows(_, _, _, _)
ScanRows(grid, entry, wi, r) ==
    IF r >= grid.length THEN Failure(grid)
    ELSE LET found == ScanCols(grid, entry, wi, r, 0)
         IN  IF found.success THEN found
             ELSE ScanRows(found.grid, entry, wi, r + 1)

\* the loop over wi, from letter wi on
RECURSIVE ScanLetters(_, _, _)
ScanLetters(grid, entry, wi) ==
    IF wi >= Len(entry.answer) THEN Failure(grid)
    ELSE LET found == ScanRows(grid, entry, wi, 0)
         IN  IF found.success THEN found
             ELSE ScanLetters(found.grid, entry, wi + 1)

\* entries.find((e) => e.placed && e.row === r && e.col === c && e.direction === d)
FindEntry(entries, r, c, direction) ==
    LET match == {i \in DOMAIN entries :
                     /\ entries[i].placed
                     /\ entries[i].row = r
                     /\ entries[i].col = c
                     /\ entries[i].direction = direction}
    IN  IF match = {} THEN <<>>
        ELSE <<entries[CHOOSE i \in match : \A m \in match : i <= m]>>

ClueOf(found, clueNumber) ==
    IF found = <<>> THEN <<>>
    ELSE <<[number |-> clueNumber, clue |-> found[1].clue,
            answer |-> found[1].answer]>>

\* clueNumber incremented once for each clue that starts at the cell
NextClueNumberPerClue(clueNumber, startsAcross, startsDown) ==
    clueNumber + (IF startsAcross THEN 1 ELSE 0) + (IF startsDown THEN 1 ELSE 0)

\* clueNumber++ at the end of the branch of a numbered cell
NextClueNumber(clueNumber, startsAcross, startsDown) == clueNumber + 1

\* the body of the loops of numberAndBuildClues for the cell (r, c)
NumberCell(grid, entries, r, c, acc) ==
    LET size == grid.length
        leftBlocked == c = 0 \/ grid.cell[<<r, c - 1>>] = NULL
        rightLetter == c + 1 < size /\ grid.cell[<<r, c + 1>>] # NULL
        topBlocked == r = 0 \/ grid.cell[<<r - 1, c>>] = NULL
        bottomLetter == r + 1 < size /\ grid.cell[<<r + 1, c>>] # NULL
        startsAcross == leftBlocked /\ rightLetter
        startsDown == topBlocked /\ bottomLetter
    IN  IF grid.cell[<<r, c>>] = NULL THEN acc
        ELSE IF startsAcross \/ startsDown
        THEN [numbers |-> [acc.numbers EXCEPT ![<<r, c>>] = acc.clueNumber],
              acrossClues |->
                 IF startsAcross
                 THEN acc.acrossClues \o
                      ClueOf(FindEntry(entries, r, c, "across"), acc.clueNumber)
                 ELSE acc.acrossClues,
              downClues |->
                 IF startsDown
                 THEN acc.downClues \o
                      ClueOf(FindEntry(entries, r, c, "down"), acc.clueNumber)
                 ELSE acc.downClues,
              clueNumber |->
                 NextClueNumber(acc.clueNumber, startsAcross, startsDown)]
        ELSE acc

\* the loop over c of numberAndBuildClues for row r, from column c on
RECURSIVE NumberCols(_, _, _, _, _)
NumberCols(grid, entries, r, c, acc) ==
    IF c >= grid.length THEN acc
    ELSE NumberCols(grid, entries, r, c + 1, NumberCell(grid, entries, r, c, acc))

\* the locals of numberAndBuildClues before its loops
NumberingStart(size) ==
    [numbers |-> createEmptyNumbers(size),
     acrossClues |-> <<>>, downClues |-> <<>>, clueNumber |-> 1]

NotPlaced(e) == ~e.placed

NoPuzzle == <<>>

\* an entry as handleGenerate builds it
Entry(id, answer, clue) ==
    [id |-> id, answer |-> answer, clue |-> clue, placed |-> FALSE,
     row |-> UNDEF, col |-> UNDEF, direction |-> "none"]

\* entry lists handed to generateCrossword
CWInputs ==
    { << >>,
      << Entry(0, <<"C","A","T">>, "pet") >>,
      << Entry(0, <<"A">>, "article") >>,
      << Entry(0, <<"S","U","P","E","R","C","A","L","I","F","R","A","G","I","L">>, "full row") >>,
      << Entry(0, <<"C","A","T">>, "pet"), Entry(1, <<"A","C","E">>, "card") >>,
      << Entry(0, <<"C","A","T">>, "pet"), Entry(1, <<"C","A","T">>, "feline") >>,
      << Entry(0, <<"C","A","T","S">>, "pets"), Entry(1, <<"C","A","T">>, "pet") >>,
      << Entry(0, <<"C","A","T">>, "pet"), Entry(1, <<"X","Y","Z">>, "axes"),
         Entry(2, <<"R","2","D","2">>, "droid") >>,
      << Entry(0, <<"C","A","T">>, "pet"), Entry(1, <<"I","C","E">>, "frozen"),
         Entry(2, <<"X","Y","Z">>, "axes") >>,
      << Entry(0, <<"C","A","T">>, "pet"), Entry(1, <<"C","O","D">>, "fish"),
         Entry(2, <<"A","N","T">>, "insect"), Entry(3, <<"D","O","G">>, "friend") >>,
      << Entry(0, <<"S","U","P","E","R","C","A","L","I","F","R","A","G","I","L","I">>, "long"),
         Entry(1, <<"C","A","R">>, "vehicle") >> }

\* the last row instead of the middle row
midRowLast(size) == size - 1

\* Math.floor(size / 2)
midRow(size) == size \div 2

\* Math.max(0, Math.floor((size - first.answer.length) / 2))
firstStartCol(size, first) ==
    IF (size - Len(first.answer)) \div 2 > 0
    THEN (size - Len(first.answer)) \div 2
    ELSE 0

CWInit ==
    /\ IF page = "crossword" THEN cwInput \in CWInputs ELSE cwInput = <<>>
    /\ cwPc = "start"
    /\ cwEntries = <<>>
    /\ cwGrid = cwCreateEmptyGrid(0)
    /\ cwIdx = 0
    /\ cwRow = 0
    /\ cwNumbering = NumberingStart(0)
    /\ cwPuzzle = NoPuzzle

\* generateCrossword up to the loop over the remaining words: shuffle, sort,
\* and the seed (or the early return for an empty list)
CWBegin ==
    /\ page = "crossword"
    /\ cwPc = "start"
    /\ \E j \in ShuffleDraws(Len(cwInput)) :
          LET size == GRID_SIZE
              grid == cwCreateEmptyGrid(size)
              sortedEntries == SortByLength(shuffleArray(cwInput, j))
          IN  IF sortedEntries = <<>>
              THEN /\ cwEntries' = sortedEntries
                   /\ cwGrid' = grid
                   /\ cwIdx' = 0
                   /\ cwPuzzle' = [grid |-> grid,
                                   numbers |-> createEmptyNumbers(size),
                                   acrossClues |-> <<>>, downClues |-> <<>>,
                                   unused |-> <<>>]
                   /\ cwPc' = "done"
              ELSE LET first == sortedEntries[1]
                   IN  /\ cwGrid' = WriteWord(grid, first.answer, midRow(size),
                                              firstStartCol(size, first), 0, 1)
                       /\ cwEntries' = [sortedEntries EXCEPT ![1] =
                              [first EXCEPT !.placed = TRUE, !.row = midRow(size),
                                            !.col = firstStartCol(size, first),
                                            !.direction = "across"]]
                       /\ cwIdx' = 1
                       /\ cwPuzzle' = NoPuzzle
                       /\ cwPc' = "placing"
    /\ cwRow' = 0
    /\ cwNumbering' = NumberingStart(GRID_SIZE)
    /\ UNCHANGED cwInput

\* one iteration of the loop over the remaining words
CWPlace ==
    /\ cwPc = "placing"
    /\ cwIdx < Len(cwEntries)
    /\ LET entry == cwEntries[cwIdx + 1]
           found == ScanLetters(cwGrid, entry, 0)
       IN  /\ cwGrid' = found.grid
           /\ IF found.success
              THEN cwEntries' = [cwEntries EXCEPT ![cwIdx + 1] =
                       [entry EXCEPT !.placed = TRUE, !.row = found.row,
                                     !.col = found.col,
                                     !.direction = found.direction]]
              ELSE UNCHANGED cwEntries
    /\ cwIdx' = cwIdx + 1
    /\ UNCHANGED <<cwInput, cwPc, cwRow, cwNumbering, cwPuzzle>>

\* numberAndBuildClues: one iteration of the loop over r
CWNumberRow ==
    /\ cwPc = "placing"
    /\ cwIdx >= Len(cwEntries)
    /\ cwRow < cwGrid.length
    /\ cwNumbering' = NumberCols(cwGrid, cwEntries, cwRow, 0, cwNumbering)
    /\ cwRow' = cwRow + 1
    /\ UNCHANGED <<cwInput, cwPc, cwEntries, cwGrid, cwIdx, cwPuzzle>>

\* the return of numberAndBuildClues, the unused list and the return of
\* generateCrossword
CWFinish ==
    /\ cwPc = "placing"
    /\ cwIdx >= Len(cwEntries)
    /\ cwRow >= cwGrid.length
    /\ cwPuzzle' = [grid |-> cwGrid, numbers |-> cwNumbering.numbers,
                    acrossClues |-> cwNumbering.acrossClues,
                    downClues |-> cwNumbering.downClues,
                    unused |-> SelectSeq(cwEntries, NotPlaced)]
    /\ cwPc' = "done"
    /\ UNCHANGED <<cwInput, cwEntries, cwGrid, cwIdx, cwRow, cwNumbering>>

CWNext ==
    \/ CWBegin /\ UNCHANGED <<page, wsVars, bingoVars>>
    \/ CWPlace /\ UNCHANGED <<page, wsVars, bingoVars>>
    \/ CWNumberRow /\ UNCHANGED <<page, wsVars, bingoVars>>
    \/ CWFinish /\ UNCHANGED <<page, wsVars, bingoVars>>

----------------------------------------------------------------------------
(* Bingo                                                                   *)

SIZE == 5
USE_FREE_CENTER == TRUE
totalCells == SIZE * SIZE
\* freeCells with the branches of the conditional swapped
freeCellsNone == IF USE_FREE_CENTER THEN 0 ELSE 1
freeCells == IF USE_FREE_CENTER THEN 1 ELSE 0
neededWords == totalCells - freeCells

FREE == <<"F","R","E","E">>

\* state that is null
NoGrid == [length |-> 0, cell |-> <<>>]
NoError == <<>>
\* null for lastWords; split never returns an empty array
NoWords == <<>>
NoCall ==
    [by |-> "none", words |-> NoWords,
     result |-> [threw |-> FALSE, message |-> NoError, grid |-> NoGrid]]

NonBlank(w) == Len(w) > 0

\* the j of each iteration i of shuffleArray when Math.random() is the
\* stream started from seed: iteration i takes draw number n - 1 - i
StreamDraws(n, seed) ==
    [i \in 1 .. n - 1 |-> RandomBelow(seed, n - 1 - i, i + 1)]

\* the loops over r and c of generateBingoGrid from cell number k on; the
\* assignment grid[r][c] = value is written out as in SetCell
RECURSIVE BingoFillFrom(_, _, _, _)
BingoFillFrom(cell, selected, k, wordIndex) ==
    LET r == k \div SIZE
        c == k % SIZE
        center == SIZE \div 2
        free == USE_FREE_CENTER /\ r = center /\ c = center
        value == IF free THEN FREE ELSE selected[wordIndex + 1]
        next == IF free THEN wordIndex ELSE wordIndex + 1
    IN  IF k >= SIZE * SIZE THEN cell
        ELSE IF <<r, c>> \in DOMAIN cell
        THEN BingoFillFrom([cell EXCEPT ![<<r, c>>] = value], selected, k + 1, next)
        ELSE BingoFillFrom((<<r, c>> :> value) @@ cell, selected, k + 1, next)

\* the message of the Error generateBingoGrid throws
NeedMessage(n) ==
    <<"You need at least ", n, " words for a 5x5 card (center is FREE).">>

\* the outcome of generateBingoGrid(rawWords) when Math.random() is the
\* stream started from seed: a thrown Error or the returned grid
generateBingoGrid(rawWords, seed) ==
    LET cleanedWords == SelectSeq([i \in DOMAIN rawWords |-> trim(rawWords[i])],
                                  NonBlank)
    IN  IF Len(cleanedWords) < neededWords
        THEN [threw |-> TRUE, message |-> NeedMessage(neededWords), grid |-> NoGrid]
        ELSE LET shuffled == shuffleArray(cleanedWords,
                                          StreamDraws(Len(cleanedWords), seed))
                 selected == SubSeq(shuffled, 1, neededWords)
                 grid == createEmptyGrid(SIZE)
             IN  [threw |-> FALSE, message |-> NoError,
                  grid |-> [grid EXCEPT !.cell =
                               BingoFillFrom(grid.cell, selected, 0, 0)]]

\* the initial content of the text area
DefaultWords ==
    << <<"A","p","p","l","e">>,
       <<"B","a","n","a","n","a">>,
       <<"C","h","e","r","r","y">>,
       <<"D","a","t","e">>,
       <<"E","l","d","e","r","b","e","r","r","y">>,
       <<"F","i","g">>,
       <<"G","r","a","p","e">>,
       <<"H","o","n","e","y","d","e","w">>,
       <<"K","i","w","i">>,
       <<"L","e","m","o","n">>,
       <<"M","a","n","g","o">>,
       <<"N","e","c","t","a","r","i","n","e">>,
       <<"O","r","a","n","g","e">>,
       <<"P","a","p","a","y","a">>,
       <<"Q","u","i","n","c","e">>,
       <<"R","a","s","p","b","e","r","r","y">>,
       <<"S","t","r","a","w","b","e","r","r","y">>,
       <<"T","o","m","a","t","o">>,
       <<"U","g","l","i"," ","F","r","u","i","t">>,
       <<"V","a","n","i","l","l","a">>,
       <<"W","a","t","e","r","m","e","l","o","n">>,
       <<"X","i","g","u","a">>,
       <<"Y","a","m">>,
       <<"Z","u","c","c","h","i","n","i">> >>

Blank == <<" ", " ">>
Padded(w) == <<" ">> \o w \o <<"\t">>

\* contents of the text area, as the items wordInput.split(/\n|,/) returns
BingoInputs ==
    { DefaultWords,
      SubSeq(DefaultWords, 1, 23),
      SubSeq(DefaultWords, 1, 23) \o <<Blank>>,
      <<Blank, Padded(DefaultWords[1])>> \o SubSeq(DefaultWords, 2, 24) \o << <<>> >>,
      DefaultWords \o << <<"Z","e","b","r","a">> >>,
      SubSeq(DefaultWords, 1, 23) \o <<Padded(DefaultWords[1])>>,
      << <<>> >> }

BingoInit ==
    /\ wordInput = DefaultWords
    /\ bingoGrid = NoGrid
    /\ bingoError = NoError
    /\ lastWords = NoWords
    /\ bingoCall = NoCall

\* onChange of the text area: setWordInput
BingoEdit ==
    /\ page = "bingo"
    /\ wordInput' \in BingoInputs \ {wordInput}
    /\ UNCHANGED <<bingoGrid, bingoError, lastWords, bingoCall>>

\* handleGenerate
BingoGenerate ==
    /\ page = "bingo"
    /\ \E seed \in 0 .. MaxSeed :
          LET words == wordInput
              result == generateBingoGrid(words, seed)
          IN  /\ bingoCall' = [by |-> "generate", words |-> words, result |-> result]
              /\ IF result.threw
                 THEN /\ bingoError' = result.message
                      /\ UNCHANGED <<bingoGrid, lastWords>>
                 ELSE /\ bingoGrid' = result.grid
                      /\ lastWords' = words
                      /\ bingoError' = NoError
    /\ UNCHANGED wordInput

\* handleShuffle calling generateBingoGrid on the split text input
BingoShuffleRereads ==
    /\ page = "bingo"
    /\ lastWords # NoWords
    /\ \E seed \in 0 .. MaxSeed :
          LET result == generateBingoGrid(wordInput, seed)
          IN  /\ bingoCall' = [by |-> "shuffle", words |-> wordInput, result |-> result]
              /\ IF result.threw
                 THEN /\ bingoError' = result.message
                      /\ UNCHANGED bingoGrid
                 ELSE /\ bingoGrid' = result.grid
                      /\ bingoError' = NoError
    /\ UNCHANGED <<wordInput, lastWords>>

\* handleShuffle
BingoShuffle ==
    /\ page = "bingo"
    /\ lastWords # NoWords
    /\ \E seed \in 0 .. MaxSeed :
          LET result == generateBingoGrid(lastWords, seed)
          IN  /\ bingoCall' = [by |-> "shuffle", words |-> lastWords, result |-> result]
              /\ IF result.threw
                 THEN /\ bingoError' = result.message
                      /\ UNCHANGED bingoGrid
                 ELSE /\ bingoGrid' = result.grid
                      /\ bingoError' = NoError
    /\ UNCHANGED <<wordInput, lastWords>>

BingoNext ==
    \/ BingoEdit /\ UNCHANGED <<page, wsVars, cwVars>>
    \/ BingoGenerate /\ UNCHANGED <<page, wsVars, cwVars>>
    \/ BingoShuffle /\ UNCHANGED <<page, wsVars, cwVars>>

----------------------------------------------------------------------------

Init ==
    /\ page \in {"wordsearch", "crossword", "bingo"}
    /\ WSInit \/ (page = "wordsearch" /\ WSFormInit)
    /\ CWInit
    /\ BingoInit

InitWS == Init /\ page = "wordsearch" /\ wsForm = NoForm

SpecWS == InitWS /\ [][WSNext]_vars

InitCW == Init /\ page = "crossword"

SpecCW == InitCW /\ [][CWNext]_vars

InitWSForm == Init /\ page = "wordsearch" /\ wsForm # NoForm

SpecWSForm == InitWSForm /\ [][WSFormNext]_vars

InitBingo == Init /\ page = "bingo"

SpecBingo == InitBingo /\ [][BingoNext]_vars

Next == WSNext \/ WSFormNext \/ CWNext \/ BingoNext

Spec == Init /\ [][Next]_vars

----------------------------------------------------------------------------
(* Properties                                                              *)

\* the elements of a grid that hold a letter
LetterCells(grid, empty) == {p \in DOMAIN grid.cell : grid.cell[p] # empty}

Square(size) == (0 .. size - 1) \X (0 .. size - 1)

\* C1: placement never changes a letter already on the grid.  On every step
\* of a word-search or crossword generation, each cell that held a letter
\* before the step holds the same letter after it.
C1_NoOverwrite ==
    [][ /\ wsPc = "placing" =>
              \A p \in LetterCells(wsGrid, "") :
                  p \in DOMAIN wsGrid'.cell /\ wsGrid'.cell[p] = wsGrid.cell[p]
        /\ cwPc = "placing" =>
              \A p \in LetterCells(cwGrid, NULL) :
                  p \in DOMAIN cwGrid'.cell /\ cwGrid'.cell[p] = cwGrid.cell[p]
      ]_vars

\* two words are committed to the word-search grid and share a cell
C1_Witness ==
    /\ wsPc = "placing"
    /\ wsPlaced = <<TRUE, TRUE>>
    /\ Cardinality(LetterCells(wsGrid, "")) < Len(wsWords[1]) + Len(wsWords[2])

\* C2: word-search placement writes only inside the grid.  From the creation
\* of the grid on, the grid has exactly the cells of [0,S) x [0,S), so no
\* write of placeWord or of the fill went to a row or column outside it.
C2_WritesInsideGrid ==
    wsPc # "start" =>
        /\ wsGrid.length = wsSize
        /\ DOMAIN wsGrid.cell = Square(wsSize)

\* a word was committed and reaches the last row or the last column
C2_Witness ==
    /\ wsPc = "placing"
    /\ \E i \in DOMAIN wsPlaced : wsPlaced[i]
    /\ \E p \in LetterCells(wsGrid, "") : p[1] = wsSize - 1 \/ p[2] = wsSize - 1

\* the direction vectors canPlaceWord is tried with
Vectors == {-1, 0, 1} \X {-1, 0, 1}

\* every cell of the word is inside the grid and is empty or holds the
\* word's letter
Fits(grid, word, row, col, dx, dy) ==
    \A i \in 0 .. Len(word) - 1 :
        /\ row + dx * i \in 0 .. grid.length - 1
        /\ col + dy * i \in 0 .. grid.length - 1
        /\ grid.cell[<<row + dx * i, col + dy * i>>] \in {"", word[i + 1]}

\* C3: canPlaceWord returns true exactly when every cell of the word is
\* inside the grid and is empty or equal to the word's letter; it reads no
\* element outside the grid; and an attempt it rejects leaves the grid as
\* it was.  Stated for every grid a generation reaches, every word of the
\* list, every anchor from one cell outside the grid on each side, and every
\* direction vector.
C3_CanPlaceWord ==
    /\ [](  (wsPc = "placing" /\ wsAttempt = 0) =>
              \A w \in DOMAIN wsWords, row \in -1 .. wsSize, col \in -1 .. wsSize,
                 v \in Vectors :
                  /\ canPlaceWord(wsGrid, wsWords[w], row, col, v[1], v[2])
                        = Fits(wsGrid, wsWords[w], row, col, v[1], v[2])
                  /\ canPlaceWordReads(wsGrid, wsWords[w], row, col, v[1], v[2], 0)
                        \subseteq Square(wsSize)  )
    /\ [][ (wsPc = "placing" /\ wsAttempt' = wsAttempt + 1) => wsGrid' = wsGrid ]_vars

\* canPlaceWord accepted a draw of the first word and rejected a draw of the
\* second, and some draw of the second lies inside the grid and is rejected
\* for the letters it meets
C3_Witness ==
    /\ wsPc = "placing"
    /\ wsPlaced = <<TRUE>>
    /\ wsAttempt = 1
    /\ \E draw \in Draws(wsDirections, wsSize) :
          /\ ~DrawFits(wsGrid, wsWords[2], wsDirections, draw)
          /\ \A i \in 0 .. Len(wsWords[2]) - 1 :
                <<draw[2] + wsDirections[draw[1]][1] * i,
                  draw[3] + wsDirections[draw[1]][2] * i>> \in Square(wsSize)

NoDirectionSelected(options) ==
    ~options.horizontal /\ ~options.vertical /\ ~options.diagonal

\* C4: with an empty direction set no word is placed.  When none of
\* horizontal, vertical and diagonal is selected, every placeWord call
\* returns false and the grid stays empty until the fill.
C4_EmptyDirectionsPlaceNothing ==
    (wsPc # "start" /\ (NoDirectionSelected(wsOptions) \/ wsDirections = <<>>)) =>
        /\ \A i \in DOMAIN wsPlaced : ~wsPlaced[i]
        /\ wsPc = "placing" => LetterCells(wsGrid, "") = {}

\* placeWord was called for a non-empty word with no direction and returned
C4_Witness ==
    /\ wsPc = "placing"
    /\ NoDirectionSelected(wsOptions)
    /\ wsDirections = <<>>
    /\ wsPlaced = <<FALSE>>
    /\ Len(wsWords[1]) > 0

\* the items that are not blank after trimming, trimmed
Usable(words) ==
    {trim(words[i]) : i \in {k \in DOMAIN words :
                                \E n \in DOMAIN words[k] : words[k][n] \notin WhiteSpace}}
UsableCount(words) ==
    Cardinality({k \in DOMAIN words :
                    \E n \in DOMAIN words[k] : words[k][n] \notin WhiteSpace})

\* C5: given exactly 24 unique usable words the bingo builder returns a
\* 5x5 grid with "FREE" at (2,2) and each of the 24 words in exactly one of
\* the other cells, and the page shows that grid.
C5_BingoPermutation ==
    (bingoCall.by # "none" /\ UsableCount(bingoCall.words) = 24
        /\ Cardinality(Usable(bingoCall.words)) = 24) =>
        LET g == bingoCall.result.grid
        IN  /\ ~bingoCall.result.threw
            /\ g.length = 5
            /\ DOMAIN g.cell = Square(5)
            /\ g.cell[<<2, 2>>] = FREE
            /\ \A w \in Usable(bingoCall.words) :
                  Cardinality({p \in Square(5) \ {<<2, 2>>} : g.cell[p] = w}) = 1
            /\ bingoGrid = g

\* a card was built from 24 unique words, some of them padded with white
\* space, among blank items
C5_Witness ==
    /\ bingoCall.by = "generate"
    /\ Len(bingoCall.words) > 24
    /\ UsableCount(bingoCall.words) = 24
    /\ Cardinality(Usable(bingoCall.words)) = 24
    /\ bingoGrid # NoGrid

\* C6: given 23 or fewer usable words the bingo builder throws the error
\* that names the minimum of 24 and returns no grid; the page shows that
\* message.
C6_BingoTooFewWords ==
    (bingoCall.by # "none" /\ UsableCount(bingoCall.words) <= 23) =>
        /\ bingoCall.result.threw
        /\ bingoCall.result.message =
              <<"You need at least ", 24, " words for a 5x5 card (center is FREE).">>
        /\ bingoCall.result.grid = NoGrid
        /\ bingoError = bingoCall.result.message

\* the builder was called with exactly 23 usable words among 24 items
C6_Witness ==
    /\ bingoCall.by = "generate"
    /\ Len(bingoCall.words) = 24
    /\ UsableCount(bingoCall.words) = 23
    /\ bingoError # NoError

\* a crossword cell that exists and holds a letter
Letter(grid, r, c) == <<r, c>> \in DOMAIN grid.cell /\ grid.cell[<<r, c>>] # NULL

\* the start conditions of section 4.3
StartsAcross(grid, r, c) ==
    Letter(grid, r, c) /\ ~Letter(grid, r, c - 1) /\ Letter(grid, r, c + 1)
StartsDown(grid, r, c) ==
    Letter(grid, r, c) /\ ~Letter(grid, r - 1, c) /\ Letter(grid, r + 1, c)
StartCells(grid) ==
    {p \in DOMAIN grid.cell :
        StartsAcross(grid, p[1], p[2]) \/ StartsDown(grid, p[1], p[2])}

\* p comes before q in row-major order
Before(p, q) == p[1] < q[1] \/ (p[1] = q[1] /\ p[2] < q[2])

Numbered(numbers) == {p \in DOMAIN numbers : numbers[p] # NoNumber}

\* C7: in every generated crossword the numbered cells are exactly the
\* cells where an across or a down entry starts, and the number of each is
\* one more than the count of start cells before it in row-major order
\* (so the numbers run 1, 2, 3, ... and a cell starting both gets one).
C7_Numbering ==
    cwPc = "done" =>
        /\ Numbered(cwPuzzle.numbers) = StartCells(cwPuzzle.grid)
        /\ \A p \in Numbered(cwPuzzle.numbers) :
              cwPuzzle.numbers[p] =
                  1 + Cardinality({q \in StartCells(cwPuzzle.grid) : Before(q, p)})

\* a cell starts both an across and a down entry and a later cell is numbered
C7_Witness ==
    /\ cwPc = "done"
    /\ \E p \in Numbered(cwPuzzle.numbers) :
          /\ StartsAcross(cwPuzzle.grid, p[1], p[2])
          /\ StartsDown(cwPuzzle.grid, p[1], p[2])
          /\ \E q \in Numbered(cwPuzzle.numbers) : Before(p, q)

\* the clues of a list that report entry e with the number of its start cell
CluesFor(clues, e, numbers) ==
    {i \in DOMAIN clues :
        /\ clues[i].answer = e.answer
        /\ clues[i].clue = e.clue
        /\ <<e.row, e.col>> \in DOMAIN numbers
        /\ clues[i].number = numbers[<<e.row, e.col>>]}

\* C8: every entry is reported exactly once: a placed entry as one clue of
\* the list of its direction, numbered as its start cell, and in no other
\* list; an entry not placed in unused; and each list holds nothing else.
C8_EveryEntryReported ==
    cwPc = "done" =>
        /\ \A i \in DOMAIN cwEntries :
              LET e == cwEntries[i]
                  across == CluesFor(cwPuzzle.acrossClues, e, cwPuzzle.numbers)
                  down == CluesFor(cwPuzzle.downClues, e, cwPuzzle.numbers)
                  unused == {k \in DOMAIN cwPuzzle.unused : cwPuzzle.unused[k].id = e.id}
              IN  IF e.placed
                  THEN /\ unused = {}
                       /\ e.direction = "across" => Cardinality(across) = 1
                       /\ e.direction = "down" => Cardinality(down) = 1
                  ELSE Cardinality(unused) = 1
        /\ Len(cwPuzzle.acrossClues) + Len(cwPuzzle.downClues) + Len(cwPuzzle.unused)
              = Len(cwEntries)

\* C9: no two placed entries have the same recorded row, column and
\* direction.
C9_DistinctStarts ==
    \A i, k \in DOMAIN cwEntries :
        (i # k /\ cwEntries[i].placed /\ cwEntries[k].placed) =>
            <<cwEntries[i].row, cwEntries[i].col, cwEntries[i].direction>>
                # <<cwEntries[k].row, cwEntries[k].col, cwEntries[k].direction>>

\* C10: a crossword generated from a single entry whose answer has L <= 15
\* letters has exactly L cells with a letter, all on row 7, the middle row,
\* and no down clue.
C10_SingleEntry ==
    (cwPc = "done" /\ Len(cwInput) = 1 /\ Len(cwInput[1].answer) <= GRID_SIZE) =>
        /\ Cardinality(LetterCells(cwPuzzle.grid, NULL)) = Len(cwInput[1].answer)
        /\ \A p \in LetterCells(cwPuzzle.grid, NULL) : p[1] = 7
        /\ cwPuzzle.downClues = <<>>

\* the crossword of the single entry CAT is returned
C10_Witness ==
    /\ cwPc = "done"
    /\ Len(cwInput) = 1
    /\ cwInput[1].answer = <<"C","A","T">>
    /\ Len(cwPuzzle.acrossClues) = 1

\* C11: after a generate attempt that ended in the insufficient-words error
\* the grid state of the bingo page holds no card.
C11_NoCardAfterFailedGenerate ==
    (bingoCall.by = "generate" /\ bingoCall.result.threw) => bingoGrid = NoGrid

\* the entries of a returned card, the FREE centre left out
CardEntries(grid) == {p \in DOMAIN grid.cell : p # <<SIZE \div 2, SIZE \div 2>>}

\* C13: a bingo card needs 24 unique entries.  A call whose input holds
\* fewer than 24 distinct usable words throws the minimum-count error, and a
\* returned card shows no entry in two cells.
C13_UniqueEntries ==
    bingoCall.by # "none" =>
        /\ Cardinality(Usable(bingoCall.words)) < 24 =>
              /\ bingoCall.result.threw
              /\ bingoCall.result.message = NeedMessage(24)
        /\ ~bingoCall.result.threw =>
              \A p, q \in CardEntries(bingoCall.result.grid) :
                  p # q => bingoCall.result.grid.cell[p] # bingoCall.result.grid.cell[q]

\* C14: a reshuffle runs generateBingoGrid on the word list of the last
\* successful generate and not on the text input.  lastWords changes only in
\* a successful generate, to the split text input of that generate; a failed
\* generate, a shuffle and an edit leave it unchanged; no shuffle happens
\* before the first successful generate; and a shuffle never ends in the
\* insufficient-words error.
C14_ShuffleUsesLastWords ==
    /\ []( /\ (bingoCall.by = "generate" /\ ~bingoCall.result.threw) =>
                  lastWords = bingoCall.words
           /\ bingoCall.by = "shuffle" =>
                  /\ lastWords # NoWords
                  /\ bingoCall.words = lastWords
                  /\ ~bingoCall.result.threw
                  /\ bingoError = NoError
           /\ lastWords = NoWords => (bingoCall.by # "shuffle" /\ bingoGrid = NoGrid) )
    /\ [][ /\ lastWords' # lastWords =>
                  /\ bingoCall'.by = "generate"
                  /\ ~bingoCall'.result.threw
                  /\ bingoCall'.words = wordInput
                  /\ lastWords' = wordInput
           /\ (bingoCall'.by = "shuffle" \/ bingoCall'.result.threw) =>
                  lastWords' = lastWords
         ]_vars

\* a card was reshuffled while the text input holds too few words and
\* differs from the list of the last successful generate
C14_Witness ==
    /\ bingoCall.by = "shuffle"
    /\ wordInput # lastWords
    /\ UsableCount(wordInput) < 24
    /\ bingoGrid = bingoCall.result.grid
    /\ bingoGrid # NoGrid

\* a step of handleGenerate: the form is mounted, no generation is running
\* and the form itself is not edited
SubmitStep == wsForm # NoForm /\ wsPc \in {"idle", "done"} /\ wsForm' = wsForm

\* C12: word-search input validation.  A submit of a form whose items are
\* all blank after trimming, or with none of horizontal, vertical and
\* diagonal selected, sets an error message and leaves the puzzle state and
\* every variable of generatePuzzle unchanged (generatePuzzle is not
\* called); every other submit clears the error and calls generatePuzzle;
\* so a generation started from the form never has an empty direction set.
C12_InputValidation ==
    /\ [][ SubmitStep =>
             IF EveryBlank(wsForm.wordInput) \/ NoDirectionSelected(wsForm)
             THEN /\ wsError' \in {NoDirectionMessage, NoWordMessage}
                  /\ wsPuzzle' = wsPuzzle
                  /\ wsPc' = wsPc
                  /\ UNCHANGED <<wsRawWords, wsSize, wsOptions, wsWords,
                                 wsDirections, wsGrid, wsIdx, wsAttempt, wsPlaced>>
             ELSE /\ wsError' = NoErrorMessage
                  /\ wsPc' = "placing"
                  /\ wsRawWords' = wsForm.wordInput
         ]_vars
    /\ []( (wsForm # NoForm /\ wsPc # "idle") =>
              /\ wsDirections # <<>>
              /\ ~NoDirectionSelected(wsOptions) )

\* a submit was rejected for the directions after an earlier submit had
\* produced a puzzle, and the puzzle is still shown
C12_Witness ==
    /\ wsForm # NoForm
    /\ wsPc = "done"
    /\ wsPuzzle # NoPuzzleYet
    /\ wsError = NoDirectionMessage
    /\ ~EveryBlank(wsForm.wordInput)

\* C15: after word-search generation every cell of the returned grid is
\* filled.  The fill leaves each cell a placed word wrote as it is and puts
\* one letter of A-Z in each cell placement left empty, so no cell of the
\* returned grid is empty.
C15_EveryCellFilled ==
    /\ []( wsPc = "done" =>
              /\ DOMAIN wsGrid.cell = Square(wsSize)
              /\ \A p \in Square(wsSize) : wsGrid.cell[p] # "" )
    /\ [][ (wsPc = "placing" /\ wsPc' = "done") =>
              \A p \in Square(wsSize) :
                  IF wsGrid.cell[p] # ""
                  THEN wsGrid'.cell[p] = wsGrid.cell[p]
                  ELSE wsGrid'.cell[p] \in Range(alphabet)
         ]_vars

\* the grid of two placed words is returned, with cells the fill wrote
C15_Witness ==
    /\ wsPc = "done"
    /\ wsPlaced = <<TRUE, TRUE>>
    /\ \E p \in Square(wsSize) : wsGrid.cell[p] \notin Range(wsWords[1]) \cup Range(wsWords[2])

\* what is left of a generation: the words not yet handled, each worth a
\* full budget of attempts, less the attempts used for the current word
Remaining ==
    (Len(wsWords) - wsIdx) * 201 + (200 - wsAttempt)
        + (IF wsPc = "placing" THEN 1 ELSE 0)

\* C20: the retry budget of the word search.  placeWord makes at most 200
\* attempts for a word; the first attempt that succeeds writes the word once
\* and ends the call with true; the call returns false only with no
\* direction or after 200 failed attempts.  Every step of a generation
\* lowers what remains of it, so it terminates, and it never goes back to an
\* earlier word or an emptied grid.
C20_RetryBudget ==
    /\ []( wsPc = "placing" =>
              /\ wsAttempt \in 0 .. 200
              /\ wsIdx \in 0 .. Len(wsWords)
              /\ Len(wsPlaced) = wsIdx )
    /\ [][ wsPc = "placing" =>
              /\ Remaining' < Remaining /\ Remaining' >= 0
              /\ wsIdx' >= wsIdx /\ wsWords' = wsWords
              /\ wsIdx' = wsIdx + 1 =>
                    /\ wsAttempt' = 0
                    /\ IF wsPlaced' = Append(wsPlaced, TRUE)
                       THEN /\ wsAttempt < 200
                            /\ Cardinality(LetterCells(wsGrid', ""))
                                  <= Cardinality(LetterCells(wsGrid, ""))
                                       + Len(wsWords[wsIdx + 1])
                            /\ wsAttempt = 0 =>
                                  \E draw \in Draws(wsDirections, wsSize) :
                                      wsGrid' = WriteWord(wsGrid, wsWords[wsIdx + 1],
                                                    draw[2], draw[3],
                                                    wsDirections[draw[1]][1],
                                                    wsDirections[draw[1]][2])
                       ELSE /\ wsPlaced' = Append(wsPlaced, FALSE)
                            /\ wsDirections = <<>> \/ wsAttempt = 200
                            /\ wsGrid' = wsGrid
              /\ wsIdx' = wsIdx =>
                    \/ wsAttempt' = wsAttempt + 1 /\ wsGrid' = wsGrid /\ wsPlaced' = wsPlaced
                    \/ wsPc' = "done" /\ wsIdx = Len(wsWords)
         ]_vars

\* a generation ended in which one word was placed and a later one used up
\* its 200 attempts
C20_Witness ==
    /\ wsPc = "done"
    /\ wsDirections # <<>>
    /\ wsPlaced = <<TRUE, FALSE>>

\* C16: crossword seeding.  For a non-empty entry list the entries are
\* handled in non-increasing answer length, and the first of them, of
\* maximal length, is written across on row floor(15 / 2) from column
\* floor((15 - len) / 2) on and recorded as placed with that row, column and
\* direction.
C16_Seeding ==
    (cwPc # "start" /\ cwEntries # <<>>) =>
        LET first == cwEntries[1]
            len == Len(first.answer)
        IN  /\ \A i \in 1 .. Len(cwEntries) - 1 :
                  Len(cwEntries[i].answer) >= Len(cwEntries[i + 1].answer)
            /\ \A i \in DOMAIN cwInput : Len(cwInput[i].answer) <= len
            /\ first.placed
            /\ first.row = 15 \div 2
            /\ first.col = (15 - len) \div 2
            /\ first.direction = "across"
            /\ \A i \in 0 .. len - 1 :
                  /\ <<first.row, first.col + i>> \in DOMAIN cwGrid.cell
                  /\ cwGrid.cell[<<first.row, first.col + i>>] = first.answer[i + 1]

\* the bounds-and-compatibility rule for a word written from (row, col) on
\* in steps of (dr, dc)
CWFits(grid, word, row, col, dr, dc) ==
    \A k \in 0 .. Len(word) - 1 :
        /\ row + dr * k \in 0 .. grid.length - 1
        /\ col + dc * k \in 0 .. grid.length - 1
        /\ grid.cell[<<row + dr * k, col + dc * k>>] \in {NULL, word[k + 1]}

Dr(direction) == IF direction = "across" THEN 0 ELSE 1
Dc(direction) == IF direction = "across" THEN 1 ELSE 0

\* the entry the loop over the remaining words is at
Current == cwEntries[cwIdx + 1]

\* a step of the loop over the remaining words
PlaceStep == cwPc = "placing" /\ cwIdx < Len(cwEntries) /\ cwIdx' = cwIdx + 1

\* C18: placement is atomic across the whole word.  Word search: an attempt
\* that fails and a placeWord call that gives up leave the grid as it was,
\* and a word is written only along a draw all of whose cells passed the
\* check on the grid before the write.  Crossword: a tryPlaceWord call that
\* returns success=false, for either direction and any anchor, leaves the
\* grid as it was; one that returns success=true passed the check on every
\* cell before it wrote; an entry for which every call failed keeps its
\* placed, row, col and direction.
C18_AtomicPlacement ==
    /\ []( (cwPc = "placing" /\ cwIdx < Len(cwEntries)) =>
              \A r \in 0 .. GRID_SIZE - 1, c \in 0 .. GRID_SIZE - 1,
                 d \in {"across", "down"}, wi \in 0 .. Len(Current.answer) - 1 :
                  LET t == tryPlaceWord(cwGrid, Current, r, c, d, wi)
                  IN  IF t.success
                      THEN /\ CWFits(cwGrid, Current.answer, t.row, t.col, Dr(d), Dc(d))
                           /\ t.grid = WriteWord(cwGrid, Current.answer, t.row, t.col,
                                                 Dr(d), Dc(d))
                      ELSE t.grid = cwGrid )
    /\ [][ /\ (PlaceStep /\ ~cwEntries'[cwIdx + 1].placed) =>
                  (cwGrid' = cwGrid /\ cwEntries' = cwEntries)
           /\ (PlaceStep /\ cwEntries'[cwIdx + 1].placed) =>
                  LET e == cwEntries'[cwIdx + 1]
                  IN  /\ CWFits(cwGrid, e.answer, e.row, e.col,
                                Dr(e.direction), Dc(e.direction))
                      /\ cwGrid' = WriteWord(cwGrid, e.answer, e.row, e.col,
                                             Dr(e.direction), Dc(e.direction))
           /\ (wsPc = "placing" /\ wsPc' = "placing" /\ wsPlaced' # Append(wsPlaced, TRUE)) =>
                  wsGrid' = wsGrid
           /\ (wsPc = "placing" /\ wsPlaced' = Append(wsPlaced, TRUE)) =>
                  /\ \A p \in DOMAIN wsGrid.cell :
                        wsGrid'.cell[p] # wsGrid.cell[p] => wsGrid.cell[p] = ""
                  /\ wsAttempt = 0 =>
                        \E draw \in Draws(wsDirections, wsSize) :
                            /\ Fits(wsGrid, wsWords[wsIdx + 1], draw[2], draw[3],
                                    wsDirections[draw[1]][1], wsDirections[draw[1]][2])
                            /\ wsGrid' = WriteWord(wsGrid, wsWords[wsIdx + 1],
                                                   draw[2], draw[3],
                                                   wsDirections[draw[1]][1],
                                                   wsDirections[draw[1]][2])
         ]_vars

\* ICE was placed down after its across attempt along the row of CAT had
\* passed an empty cell and then met a different letter; XYZ stayed unplaced
C18_Witness ==
    /\ cwPc = "done"
    /\ \E i, k \in DOMAIN cwEntries :
          /\ cwEntries[1].answer = <<"C","A","T">>
          /\ cwEntries[i].answer = <<"I","C","E">>
          /\ cwEntries[i].placed /\ cwEntries[i].direction = "down"
          /\ ~cwEntries[k].placed

\* the candidates of section 4.3 for a word on a grid: letter index, cell
\* and direction such that the cell holds the letter and the word, laid so
\* that the letter falls on the cell, passes the rule
Candidates(grid, word) ==
    {x \in (0 .. Len(word) - 1) \X (0 .. grid.length - 1) \X (0 .. grid.length - 1)
             \X {"across", "down"} :
        /\ grid.cell[<<x[2], x[3]>>] = word[x[1] + 1]
        /\ CWFits(grid, word, x[2] - Dr(x[4]) * x[1], x[3] - Dc(x[4]) * x[1],
                  Dr(x[4]), Dc(x[4]))}

\* x comes no later than y: letter index, then row, then column, then across
\* before down
NoLater(x, y) ==
    \/ x[1] < y[1]
    \/ x[1] = y[1] /\ x[2] < y[2]
    \/ x[1] = y[1] /\ x[2] = y[2] /\ x[3] < y[3]
    \/ x[1] = y[1] /\ x[2] = y[2] /\ x[3] = y[3] /\ (x[4] = "across" \/ y[4] = "down")

\* C19: first found, first used.  Each entry after the seed is placed at
\* the first candidate in the order letter index, cell in row-major order,
\* across before down; it is written there once and recorded with the row,
\* column and direction of that candidate; an entry with no candidate stays
\* unplaced and the grid stays as it was.  No other entry changes.
C19_FirstFoundFirstUsed ==
    [][ PlaceStep =>
          LET word == Current.answer
              cands == Candidates(cwGrid, word)
          IN  /\ \A i \in DOMAIN cwEntries :
                    i # cwIdx + 1 => cwEntries'[i] = cwEntries[i]
              /\ IF cands = {}
                 THEN cwEntries' = cwEntries /\ cwGrid' = cwGrid
                 ELSE LET x == CHOOSE x \in cands : \A y \in cands : NoLater(x, y)
                          row == x[2] - Dr(x[4]) * x[1]
                          col == x[3] - Dc(x[4]) * x[1]
                      IN  /\ cwEntries'[cwIdx + 1] =
                                [Current EXCEPT !.placed = TRUE, !.row = row,
                                                !.col = col, !.direction = x[4]]
                          /\ cwGrid' = WriteWord(cwGrid, word, row, col,
                                                 Dr(x[4]), Dc(x[4]))
      ]_vars

\* an entry after the seed had more than one candidate and was placed
\* down, and another entry had none
C19_Witness ==
    /\ cwPc = "placing"
    /\ cwIdx = Len(cwEntries)
    /\ cwRow = 0
    /\ \E i, k \in 2 .. Len(cwEntries) :
          /\ cwEntries[i].placed
          /\ cwEntries[i].direction = "down"
          /\ ~cwEntries[k].placed
          /\ Cardinality(Candidates(cwGrid, cwEntries[i].answer)) > 1
          /\ Candidates(cwGrid, cwEntries[k].answer) = {}


\* C21: the crossword generator writes only inside the grid.  From the
\* creation of the grid on, for every entry list, the answers longer than
\* the grid included, the grid has exactly GRID_SIZE rows and exactly the
\* cells of [0,GRID_SIZE) x [0,GRID_SIZE), and so has the grid of the
\* returned puzzle.
C21_CrosswordWritesInsideGrid ==
    /\ cwPc # "start" =>
          /\ cwGrid.length = GRID_SIZE
          /\ DOMAIN cwGrid.cell = Square(GRID_SIZE)
    /\ cwPc = "done" =>
          /\ cwPuzzle.grid.length = GRID_SIZE
          /\ DOMAIN cwPuzzle.grid.cell = Square(GRID_SIZE)


\* the word is spelled out in the grid from (row, col) along (dx, dy)
Spelled(grid, word, row, col, dx, dy) ==
    \A i \in 0 .. Len(word) - 1 :
        /\ <<row + dx * i, col + dy * i>> \in DOMAIN grid.cell
        /\ grid.cell[<<row + dx * i, col + dy * i>>] = word[i + 1]

\* the word can be found from some cell along one of the directions
FoundIn(grid, word, directions) ==
    \E d \in DOMAIN directions, row \in 0 .. grid.length - 1,
       col \in 0 .. grid.length - 1 :
        Spelled(grid, word, row, col, directions[d][1], directions[d][2])

\* C22: every listed word is in the grid.  When generatePuzzle returns,
\* every word of the returned list is spelled out in the returned grid from
\* some cell along one of the enabled directions, and no word whose
\* placeWord call returned false is in the returned list.
C22_ListedWordsAreFound ==
    wsPc = "done" =>
        /\ \A i \in DOMAIN wsWords : FoundIn(wsGrid, wsWords[i], wsDirections)
        /\ \A i \in DOMAIN wsPlaced :
              ~wsPlaced[i] => \A k \in DOMAIN wsWords : wsWords[k] # wsWords[i]


\* the cells an entry with row, col and direction covers
EntryCells(e) ==
    {<<e.row + Dr(e.direction) * k, e.col + Dc(e.direction) * k>> :
        k \in 0 .. Len(e.answer) - 1}

\* C23: placed answers stay readable and every later answer crosses.  From
\* the seeding on, and in the grid of the returned puzzle, every entry
\* marked placed has row, col and direction set and its answer is read from
\* (row, col) in that direction; no step changes a letter that is on the
\* grid; and an entry placed by the loop over the remaining words covers at
\* least one cell that held a letter before the step.
C23_PlacedAnswersReadable ==
    /\ []( cwPc # "start" =>
              \A i \in DOMAIN cwEntries :
                  cwEntries[i].placed =>
                      /\ cwEntries[i].row \in 0 .. GRID_SIZE - 1
                      /\ cwEntries[i].col \in 0 .. GRID_SIZE - 1
                      /\ cwEntries[i].direction \in {"across", "down"}
                      /\ Spelled(cwGrid, cwEntries[i].answer, cwEntries[i].row,
                                 cwEntries[i].col, Dr(cwEntries[i].direction),
                                 Dc(cwEntries[i].direction))
                      /\ cwPc = "done" =>
                            Spelled(cwPuzzle.grid, cwEntries[i].answer,
                                    cwEntries[i].row, cwEntries[i].col,
                                    Dr(cwEntries[i].direction),
                                    Dc(cwEntries[i].direction)) )
    /\ [][ /\ cwPc = "placing" =>
                  \A p \in DOMAIN cwGrid.cell :
                      cwGrid.cell[p] # NULL =>
                          (p \in DOMAIN cwGrid'.cell /\ cwGrid'.cell[p] = cwGrid.cell[p])
           /\ (PlaceStep /\ cwEntries'[cwIdx + 1].placed) =>
                  \E p \in EntryCells(cwEntries'[cwIdx + 1]) : cwGrid.cell[p] # NULL
         ]_vars

\* the puzzle was returned with three answers placed after the seed, one of
\* them crossing an answer that is not the seed
C23_Witness ==
    /\ cwPc = "done"
    /\ Len(cwEntries) = 4
    /\ \A i \in DOMAIN cwEntries : cwEntries[i].placed
    /\ \E i, k \in 2 .. Len(cwEntries) :
          /\ i < k
          /\ EntryCells(cwEntries[i]) \cap EntryCells(cwEntries[k]) # {}

====
